---- MODULE Spec2Model ----
(***************************************************************************)
(* A model of src/create_knowledge_base.py: the helper functions           *)
(* (existence probes, bucket creation, directory upload) and the run of    *)
(* main() from session setup to the final retrieve-only call.              *)
(*                                                                         *)
(* Three things are outside src/ and are modelled from spec.md:            *)
(* the BedrockKnowledgeBase constructor in its two forms and its           *)
(* start_ingestion_job method (utils/knowledge_base.py).                   *)
(*                                                                         *)
(* Exceptions are the ones of class Exception (what `except Exception`     *)
(* catches); asynchronous interrupts of the process are not modelled.      *)
(*                                                                         *)
(* Line 150 sets kbAlreadyExists to True, so the script as it stands only  *)
(* ever takes the adopt branch.  The model keeps the flag as the switch    *)
(* the two branches of line 151 are written for, and a run starts with     *)
(* either value: the create branch is what the script does once the flag   *)
(* is edited to False.                                                     *)
(***************************************************************************)
EXTENDS Integers, Sequences, FiniteSets, TLC

VARIABLES
    pc,                     \* position of main()
    kbAlreadyExists,        \* the mode switch of line 150
    names,                  \* the resource names in force
    existing_kb,            \* first result of get_existing_knowledge_base
    existing_data_sources,  \* second result of get_existing_knowledge_base
    knowledge_base,         \* the adapter handle (kb_wrapper / knowledge_base)
    data_dir,               \* what main() found at synthetic_dataset
    kb_id,                  \* the id resolved at line 209
    query,                  \* the last line read by input()
    response,               \* the last retrieve_and_generate response
    shown,                  \* what was last printed to stdout
    logged,                 \* the kinds of logger messages emitted so far
    error,                  \* the exception caught at line 273, if any
    log,                    \* the provider calls made so far, in order
    nread,                  \* the lines other than the sentinel read so far
    lib_fn,                 \* the helper exercised on its own
    lib_in,                 \* its arguments and the provider's answers
    ret                     \* what it returned

vars == <<pc, kbAlreadyExists, names, existing_kb, existing_data_sources,
          knowledge_base, data_dir, kb_id, query, response, shown, logged,
          error, log, nread, lib_fn, lib_in, ret>>

mainVars == <<pc, kbAlreadyExists, names, existing_kb, existing_data_sources,
              knowledge_base, data_dir, kb_id, query, response, shown, logged,
              error, log, nread>>

libVars == <<lib_fn, lib_in, ret>>

(***************************************************************************)
(* Bounds of the model.                                                    *)
(***************************************************************************)
MaxKbs == 2        \* knowledge-base summaries in one listing
MaxDs == 2         \* data-source summaries in one listing
MaxDetails == 2    \* collection details in one batch_get_collection answer
MaxQueries == 2    \* non-sentinel lines read by the interactive loop
MaxChunks == 2     \* chunks in one retrieve answer

(***************************************************************************)
(* Values.                                                                 *)
(***************************************************************************)
None == [tag |-> "None"]

SeqUpTo(S, n) == UNION {[1..k -> S] : k \in 0..n}

Call(api, arg, ok) == [api |-> api, arg |-> arg, ok |-> ok]

Apis(calls) == [i \in DOMAIN calls |-> calls[i].api]

Count(calls, api) == Cardinality({i \in DOMAIN calls : calls[i].api = api})

MutatingApis ==
    {"create_bucket", "create_collection", "create_knowledge_base",
     "create_data_source", "upload_file", "start_ingestion_job"}

ProbeApis == {"head_bucket", "batch_get_collection", "list_knowledge_bases"}

(***************************************************************************)
(* Name generation, lines 134-142.  A local time is a broken-down time;    *)
(* strftime("%Y%m%d%H%M%S") writes it as fourteen decimal digits.          *)
(***************************************************************************)
Timestamps ==
    [year : {2024, 2025}, month : {1, 12}, day : {1, 11, 12},
     hour : {0, 13}, minute : {0}, second : {0, 59}]

RunTimestamps ==
    {t \in Timestamps : t.year = 2025 /\ t.month = 1 /\ t.hour = 13
                        /\ t.second = 59 /\ t.day \in {1, 12}}

Pad2(n) == <<(n \div 10) % 10, n % 10>>

Pad4(n) == <<(n \div 1000) % 10, (n \div 100) % 10, (n \div 10) % 10, n % 10>>

strftime(t) ==
    Pad4(t.year) \o Pad2(t.month) \o Pad2(t.day)
        \o Pad2(t.hour) \o Pad2(t.minute) \o Pad2(t.second)

\* s[-n:] of Python: the last n items, or all of s when it is shorter.
LastItems(s, n) == IF Len(s) <= n THEN s ELSE SubSeq(s, Len(s) - n + 1, Len(s))

SuffixLen == 7

Suffix(t) == LastItems(strftime(t), SuffixLen)

NameSet(t) ==
    [knowledge_base_name |-> <<"bedrock-sample-knowledge-base-", Suffix(t)>>,
     data_bucket_name    |-> <<"bedrock-kb-", Suffix(t), "-1">>,
     vector_store_name   |-> <<"bedrock-sample-rag-", Suffix(t)>>]

\* The fixed names of adopt mode, lines 152-155.
AdoptNames ==
    [knowledge_base_name |-> <<"bedrock-sample-knowledge-base-", <<0, 2, 3, 2, 5, 1, 9>>>>,
     data_bucket_name    |-> <<"bedrock-kb-", <<0, 2, 3, 2, 5, 1, 9>>, "-1">>,
     vector_store_name   |-> <<"bedrock-sample-rag-", <<0, 2, 3, 2, 5, 1, 9>>, "-f">>]

NoNames == [knowledge_base_name |-> <<>>, data_bucket_name |-> <<>>,
            vector_store_name |-> <<>>]

(***************************************************************************)
(* check_s3_bucket_exists, lines 23-31.  head_bucket answers 200, or       *)
(* raises ClientError 404 (no such bucket), ClientError 403 (no access),   *)
(* or a transport error.                                                   *)
(***************************************************************************)
HeadOutcomes == {"200", "404", "403", "transport"}

BucketNames == {AdoptNames.data_bucket_name, <<"bedrock-kb-", <<1, 1, 3, 0, 0, 5, 9>>, "-1">>}

check_s3_bucket_exists(head, bucket_name) ==
    [raised |-> FALSE,
     value  |-> (head = "200"),
     calls  |-> <<Call("head_bucket", bucket_name, head = "200")>>,
     logs   |-> IF head = "200" THEN {"bucket_exists"} ELSE {"bucket_missing"}]

(***************************************************************************)
(* check_opensearch_collection_exists, lines 52-62.                        *)
(***************************************************************************)
CollectionIds == {"col-1", "col-2"}

CollectionDetail(id, name) == [tag |-> "collection", id |-> id, name |-> name]

CollectionWorlds ==
    [ok : {FALSE}, ids : {<<>>}]
        \cup [ok : {TRUE}, ids : SeqUpTo(CollectionIds, MaxDetails)]

check_opensearch_collection_exists(w, collection_name) ==
    LET details == [i \in DOMAIN w.ids |-> CollectionDetail(w.ids[i], collection_name)]
        calls   == <<Call("batch_get_collection", collection_name, w.ok)>>
    IN  IF ~w.ok
        THEN [raised |-> FALSE, value |-> None, calls |-> calls,
              logs |-> {"collection_check_error"}]
        ELSE IF Len(details) > 0
        THEN [raised |-> FALSE, value |-> details[1], calls |-> calls,
              logs |-> {"collection_exists"}]
        ELSE [raised |-> FALSE, value |-> None, calls |-> calls, logs |-> {}]

(***************************************************************************)
(* get_existing_knowledge_base, lines 64-101.  The provider's side of one  *)
(* call is a world: whether each request succeeds and what the two         *)
(* listings hold.                                                          *)
(***************************************************************************)
KbIds == {"KB1", "KB2", "KB3"}

DsIds == {"DS1", "DS2"}

NoKbId == ""

OtherKbName == <<"bedrock-sample-knowledge-base-", <<1, 1, 3, 0, 0, 5, 9>>>>

KbNames == {AdoptNames.knowledge_base_name, OtherKbName}

\* What list_knowledge_bases may hold: two bases of the adopted name, one other.
Summaries ==
    {[name |-> AdoptNames.knowledge_base_name, knowledgeBaseId |-> "KB1"],
     [name |-> AdoptNames.knowledge_base_name, knowledgeBaseId |-> "KB2"],
     [name |-> OtherKbName, knowledgeBaseId |-> "KB3"]}

KbDescriptor(id) == [tag |-> "knowledgeBase", knowledgeBaseId |-> id]

DsDescriptor(ds, id) == [tag |-> "dataSource", dataSourceId |-> ds, knowledgeBaseId |-> id]

DsList(items) == [tag |-> "list", items |-> items]

\* ds_fail: the position of the get_data_source request that raises (0: none).
KbWorlds ==
    {w \in [list_ok : BOOLEAN, summaries : SeqUpTo(Summaries, MaxKbs),
            get_ok : BOOLEAN, ds_ok : BOOLEAN, ds_list : SeqUpTo(DsIds, MaxDs),
            ds_fail : 0..MaxDs] :
        /\ w.ds_fail <= Len(w.ds_list)
        /\ ~w.list_ok => w.summaries = <<>> /\ ~w.get_ok
        /\ ~w.get_ok => ~w.ds_ok
        /\ ~w.ds_ok => w.ds_list = <<>>}

\* Lines 69-75 without the break: the id of the last summary of that name.
RECURSIVE ScanSummariesLast(_, _, _)
ScanSummariesLast(summaries, kb_name, i) ==
    IF i > Len(summaries) THEN NoKbId
    ELSE LET later == ScanSummariesLast(summaries, kb_name, i + 1)
         IN  IF later # NoKbId THEN later
             ELSE IF summaries[i].name = kb_name THEN summaries[i].knowledgeBaseId
             ELSE NoKbId

\* Lines 69-75: the id of the first summary of that name, by a scan that breaks.
RECURSIVE ScanSummaries(_, _, _)
ScanSummaries(summaries, kb_name, i) ==
    IF i > Len(summaries) THEN NoKbId
    ELSE IF summaries[i].name = kb_name THEN summaries[i].knowledgeBaseId
    ELSE ScanSummaries(summaries, kb_name, i + 1)

\* Lines 87-93: one get_data_source per listed data source, until one raises.
RECURSIVE FetchDataSources(_, _, _, _, _, _)
FetchDataSources(ds_list, id, ds_fail, i, data_sources, calls) ==
    IF i > Len(ds_list)
    THEN [raised |-> FALSE, data_sources |-> data_sources, calls |-> calls]
    ELSE IF i = ds_fail
    THEN [raised |-> TRUE, data_sources |-> data_sources,
          calls |-> Append(calls, Call("get_data_source", <<ds_list[i], id>>, FALSE))]
    ELSE FetchDataSources(ds_list, id, ds_fail, i + 1,
                          Append(data_sources, DsDescriptor(ds_list[i], id)),
                          Append(calls, Call("get_data_source", <<ds_list[i], id>>, TRUE)))

\* Lines 99-101 returning None with an empty list in place of (None, None).
KbProbeErrorEmptyList(calls, logs) ==
    [raised |-> FALSE, kb |-> None, data_sources |-> DsList(<<>>), calls |-> calls,
     logs |-> logs \cup {"kb_probe_error"}]

\* Lines 99-101: whatever was raised is logged and (None, None) returned.
KbProbeError(calls, logs) ==
    [raised |-> FALSE, kb |-> None, data_sources |-> None, calls |-> calls,
     logs |-> logs \cup {"kb_probe_error"}]

get_existing_knowledge_base(w, kb_name) ==
    LET c1 == <<Call("list_knowledge_bases", <<>>, w.list_ok)>>
        id == ScanSummaries(w.summaries, kb_name, 1)
        c2 == Append(c1, Call("get_knowledge_base", <<id>>, w.get_ok))
        c3 == Append(c2, Call("list_data_sources", <<id>>, w.ds_ok))
        f  == FetchDataSources(w.ds_list, id, w.ds_fail, 1, <<>>, c3)
    IN  IF ~w.list_ok THEN KbProbeError(c1, {})
        ELSE IF id = NoKbId
        THEN [raised |-> FALSE, kb |-> None, data_sources |-> None, calls |-> c1,
              logs |-> {"kb_not_found"}]
        ELSE IF ~w.get_ok THEN KbProbeError(c2, {"kb_found"})
        ELSE IF ~w.ds_ok THEN KbProbeError(c3, {"kb_found"})
        ELSE IF f.raised THEN KbProbeError(f.calls, {"kb_found"})
        ELSE [raised |-> FALSE, kb |-> KbDescriptor(id),
              data_sources |-> DsList(f.data_sources), calls |-> f.calls,
              logs |-> {"kb_found"}]

(***************************************************************************)
(* create_s3_bucket_if_not_exists, lines 33-50.                            *)
(***************************************************************************)
Regions == {"us-east-1", "eu-west-1"}

create_s3_bucket_if_not_exists(head, create_ok, region, bucket_name) ==
    LET chk == check_s3_bucket_exists(head, bucket_name)
        constraint == IF region = "us-east-1" THEN <<>> ELSE <<region>>
        calls == Append(chk.calls,
                        Call("create_bucket", <<bucket_name, constraint>>, create_ok))
    IN  IF chk.value
        THEN [raised |-> FALSE, value |-> TRUE, calls |-> chk.calls, logs |-> chk.logs]
        ELSE IF create_ok
        THEN [raised |-> FALSE, value |-> TRUE, calls |-> calls,
              logs |-> chk.logs \cup {"bucket_created"}]
        ELSE [raised |-> FALSE, value |-> FALSE, calls |-> calls,
              logs |-> chk.logs \cup {"bucket_create_error"}]

(***************************************************************************)
(* The bucket helpers against one bucket store: lines 33-50 are applied,   *)
(* then lines 23-31, then lines 33-50 again, for the same name.  The       *)
(* store answers head_bucket by whether the bucket exists unless the call  *)
(* meets a fault (no access, transport), and create_bucket adds the bucket *)
(* unless the call meets a fault; create_bucket on a bucket the caller     *)
(* already owns succeeds in us-east-1 and is an error elsewhere.           *)
(***************************************************************************)
HeadFaults == {"none", "403", "transport"}

HeadBucket(exists, fault) ==
    IF fault # "none" THEN fault ELSE IF exists THEN "200" ELSE "404"

CreateBucket(exists, fault, region) ==
    ~fault /\ (~exists \/ region = "us-east-1")

\* Whether the bucket exists once create_s3_bucket_if_not_exists returned r.
ExistsAfter(exists, r) ==
    exists \/ \E i \in DOMAIN r.calls :
                  r.calls[i].api = "create_bucket" /\ r.calls[i].ok

BucketScenario(exists, head_faults, create_faults, region, bucket_name) ==
    LET first  == create_s3_bucket_if_not_exists(
                      HeadBucket(exists, head_faults[1]),
                      CreateBucket(exists, create_faults[1], region),
                      region, bucket_name)
        held   == ExistsAfter(exists, first)
        probe  == check_s3_bucket_exists(HeadBucket(held, head_faults[2]),
                                         bucket_name)
        second == create_s3_bucket_if_not_exists(
                      HeadBucket(held, head_faults[3]),
                      CreateBucket(held, create_faults[2], region),
                      region, bucket_name)
    IN  [raised |-> FALSE, first |-> first, probe |-> probe, second |-> second,
         held |-> held]

(***************************************************************************)
(* upload_directory, lines 103-114.  A file is its path below local_path,  *)
(* component by component; os.walk visits a directory's own files, then    *)
(* its subdirectories, each in the order the file system lists them.       *)
(***************************************************************************)
FilePaths == {<<"c.txt">>, <<"a", "b.txt">>, <<"e", "f.txt">>}

Seps == {"/", "\\"}

Dir(f) == SubSeq(f, 1, Len(f) - 1)

WalkOrders(files) ==
    {o \in [1..Cardinality(files) -> files] :
        /\ \A f \in files : \E i \in DOMAIN o : o[i] = f
        /\ \A i, j \in DOMAIN o : i < j => Len(o[i]) <= Len(o[j])
        /\ \A i, j, k \in DOMAIN o :
              (i < k /\ k < j /\ Dir(o[i]) = Dir(o[j])) => Dir(o[k]) = Dir(o[i])}

\* os.path.join / os.path.relpath: the components joined by the host separator.
RECURSIVE JoinPath(_, _)
JoinPath(path, sep) ==
    IF Len(path) = 0 THEN <<>>
    ELSE IF Len(path) = 1 THEN <<path[1]>>
    ELSE <<path[1], sep>> \o JoinPath(Tail(path), sep)

\* upload_directory without the try of lines 111-114: the first upload that
\* raises ends the walk.
RECURSIVE UploadFilesAbort(_, _, _, _, _, _, _)
UploadFilesAbort(order, fails, sep, bucket_name, i, calls, logs) ==
    IF i > Len(order)
    THEN [raised |-> FALSE, value |-> None, calls |-> calls, logs |-> logs]
    ELSE LET s3_key == JoinPath(order[i], sep)
             ok     == order[i] \notin fails
             made   == Append(calls, Call("upload_file", <<bucket_name, s3_key>>, ok))
         IN  IF ok
             THEN UploadFilesAbort(order, fails, sep, bucket_name, i + 1, made, logs)
             ELSE [raised |-> TRUE, value |-> None, calls |-> made, logs |-> logs]

\* Lines 107-114, the body of the loop for the i-th file of the walk.
RECURSIVE UploadFiles(_, _, _, _, _, _, _)
UploadFiles(order, fails, sep, bucket_name, i, calls, logs) ==
    IF i > Len(order)
    THEN [raised |-> FALSE, value |-> None, calls |-> calls, logs |-> logs]
    ELSE LET s3_key == JoinPath(order[i], sep)
             ok     == order[i] \notin fails
         IN  UploadFiles(order, fails, sep, bucket_name, i + 1,
                         Append(calls, Call("upload_file", <<bucket_name, s3_key>>, ok)),
                         IF ok THEN logs ELSE logs \cup {"upload_error"})

upload_directory(order, fails, sep, bucket_name) ==
    UploadFiles(order, fails, sep, bucket_name, 1, <<>>, {"uploading_directory"})

(***************************************************************************)
(* utils.knowledge_base.BedrockKnowledgeBase, which src/ does not hold,    *)
(* as spec.md section 4.3 describes it.                                    *)
(***************************************************************************)
Handle(kb, ds, provenance) ==
    [tag |-> "handle", knowledge_base |-> kb, data_source |-> ds,
     provenance |-> provenance]

\* BedrockKnowledgeBase(data_sources=..., createKB=False, existingKB=...):
\* no side effect; it returns the handle or raises.
AdapterAdopt(existingKB, data_sources, ok) ==
    [raised |-> ~ok, value |-> Handle(existingKB, data_sources, "Adopted"),
     calls |-> <<>>]

ProvisionApis ==
    <<"create_bucket", "create_collection", "create_knowledge_base",
      "create_data_source">>

\* BedrockKnowledgeBase(kb_name=..., ...): storage, vector index, knowledge
\* base and data source are provisioned in that order; fail_at is the step
\* that raises (0: none).
AdapterCreate(nm, id, fail_at) ==
    LET n == IF fail_at = 0 THEN Len(ProvisionApis) ELSE fail_at
    IN  [raised |-> fail_at # 0,
         value  |-> Handle(KbDescriptor(id),
                           DsList(<<DsDescriptor("DS1", id)>>), "Created"),
         calls  |-> [i \in 1..n |->
                        Call(ProvisionApis[i], nm.knowledge_base_name,
                             i # fail_at)]]

\* knowledge_base.start_ingestion_job()
AdapterStartIngestion(handle, ok) ==
    [raised |-> ~ok, value |-> None,
     calls |-> <<Call("start_ingestion_job",
                      <<handle.knowledge_base.knowledgeBaseId>>, ok)>>]

(***************************************************************************)
(* main(), lines 116-276.                                                  *)
(***************************************************************************)
Unread == [tag |-> "unread"]

Missing == [tag |-> "missing"]

DataDir(files, sep) == [tag |-> "dir", files |-> files, sep |-> sep]

Nothing == [kind |-> "nothing", items |-> 0]

ResultLimit == 5

\* Lines typed at the prompt, character by character.
Lines ==
    {<<"e", "x", "i", "t">>, <<"E", "x", "I", "T">>,
     <<"e", "x", "i", "t", " ">>, <<"h", "i">>}

LowerChar(c) ==
    CASE c = "E" -> "e" [] c = "X" -> "x" [] c = "I" -> "i" [] c = "T" -> "t"
      [] OTHER -> c

\* str.lower()
lower(s) == [i \in DOMAIN s |-> LowerChar(s[i])]

Sentinel == <<"e", "x", "i", "t">>

InitialQuery == <<"?">>

Answer == [tag |-> "response", has_text |-> TRUE]

NoText == [tag |-> "response", has_text |-> FALSE]

\* Lines 273-276 with a raise at the end of the handler: the error is logged
\* and reaches the caller of main().
CaughtReraise(e) ==
    /\ pc' = "propagated"
    /\ error' = e
    /\ logged' = logged \cup {"main_error"}

\* Lines 273-276: the handler of main(); after it main() returns.
Caught(e) ==
    /\ pc' = "caught"
    /\ error' = e
    /\ logged' = logged \cup {"main_error"}

MainInit ==
    /\ pc = "setup"
    /\ kbAlreadyExists \in BOOLEAN
    /\ names = NoNames
    /\ existing_kb = None
    /\ existing_data_sources = None
    /\ knowledge_base = None
    /\ data_dir = Unread
    /\ kb_id = NoKbId
    /\ query = InitialQuery
    /\ response = None
    /\ shown = Nothing
    /\ logged = {}
    /\ error = "none"
    /\ log = <<>>
    /\ nread = 0

LibIdle ==
    /\ lib_fn = "none"
    /\ lib_in = None
    /\ ret = None

\* Lines 119-148: session, clients, caller identity, generated names.
Setup ==
    /\ pc = "setup"
    /\ \E o \in {"ok", "client_error", "identity_error"}, now \in RunTimestamps :
          CASE o = "ok" ->
                 /\ log' = Append(log, Call("get_caller_identity", <<>>, TRUE))
                 /\ names' = NameSet(now)
                 /\ pc' = "mode"
                 /\ logged' = logged \cup {"using_account"}
                 /\ UNCHANGED error
            [] o = "identity_error" ->
                 /\ log' = Append(log, Call("get_caller_identity", <<>>, FALSE))
                 /\ Caught("ClientError")
                 /\ UNCHANGED names
            [] OTHER ->
                 /\ Caught("ClientError")
                 /\ UNCHANGED <<names, log>>
    /\ UNCHANGED <<kbAlreadyExists, existing_kb, existing_data_sources,
                   knowledge_base, data_dir, kb_id, query, response, shown>>
    /\ UNCHANGED <<nread, lib_fn, lib_in, ret>>

\* Lines 150-163: the adopt branch up to the probe's results.
AdoptProbe ==
    /\ pc = "mode"
    /\ kbAlreadyExists
    /\ \E w \in KbWorlds :
          LET r == get_existing_knowledge_base(w, AdoptNames.knowledge_base_name)
          IN  /\ existing_kb' = r.kb
              /\ existing_data_sources' = r.data_sources
              /\ log' = log \o r.calls
              /\ logged' = logged \cup r.logs \cup {"using_existing"}
    /\ names' = AdoptNames
    /\ pc' = "adopt_wrap"
    /\ UNCHANGED <<kbAlreadyExists, knowledge_base, data_dir, kb_id, query,
                   response, shown, error>>
    /\ UNCHANGED <<nread, lib_fn, lib_in, ret>>

\* The adopt branch falling through to the ingestion job of line 206.
AdoptWrapIngest ==
    /\ pc = "adopt_wrap"
    /\ knowledge_base' = Handle(existing_kb, existing_data_sources, "Adopted")
    /\ log' = Append(log, Call("start_ingestion_job", <<>>, TRUE))
    /\ pc' = "get_id"
    /\ UNCHANGED <<kbAlreadyExists, names, existing_kb, existing_data_sources,
                   data_dir, kb_id, query, response, shown, error, logged>>
    /\ UNCHANGED <<nread, lib_fn, lib_in, ret>>

\* Lines 165-177: the wrapper around what the probe returned.
AdoptWrap ==
    /\ pc = "adopt_wrap"
    /\ \E ok \in BOOLEAN :
          LET r == AdapterAdopt(existing_kb, existing_data_sources, ok)
          IN  /\ log' = log \o r.calls
              /\ IF r.raised
                 THEN /\ Caught("AdapterError")
                      /\ UNCHANGED knowledge_base
                 ELSE /\ knowledge_base' =
                            [r.value EXCEPT !.knowledge_base = existing_kb,
                                            !.data_source = existing_data_sources]
                      /\ pc' = "get_id"
                      /\ UNCHANGED <<error, logged>>
    /\ UNCHANGED <<kbAlreadyExists, names, existing_kb, existing_data_sources,
                   data_dir, kb_id, query, response, shown>>
    /\ UNCHANGED <<nread, lib_fn, lib_in, ret>>

\* The create branch without the probe of line 182.
CreateProbeSkipped ==
    /\ pc = "mode"
    /\ ~kbAlreadyExists
    /\ logged' = logged \cup {"creating_new"}
    /\ pc' = "create_kb"
    /\ UNCHANGED <<kbAlreadyExists, names, existing_kb, existing_data_sources,
                   knowledge_base, data_dir, kb_id, query, response, shown, error,
                   log>>
    /\ UNCHANGED <<nread, lib_fn, lib_in, ret>>

\* Lines 178-182: the create branch up to the collection probe.
CreateProbe ==
    /\ pc = "mode"
    /\ ~kbAlreadyExists
    /\ \E w \in CollectionWorlds :
          LET r == check_opensearch_collection_exists(w, names.vector_store_name)
          IN  /\ log' = log \o r.calls
              /\ logged' = logged \cup r.logs \cup {"creating_new"}
    /\ pc' = "create_kb"
    /\ UNCHANGED <<kbAlreadyExists, names, existing_kb, existing_data_sources,
                   knowledge_base, data_dir, kb_id, query, response, shown, error>>
    /\ UNCHANGED <<nread, lib_fn, lib_in, ret>>

\* Lines 184-195: the new knowledge base.
CreateKB ==
    /\ pc = "create_kb"
    /\ \E id \in KbIds, fail_at \in 0..Len(ProvisionApis) :
          LET r == AdapterCreate(names, id, fail_at)
          IN  /\ log' = log \o r.calls
              /\ IF r.raised
                 THEN /\ Caught("AdapterError")
                      /\ UNCHANGED knowledge_base
                 ELSE /\ knowledge_base' = r.value
                      /\ pc' = "upload"
                      /\ UNCHANGED <<error, logged>>
    /\ UNCHANGED <<kbAlreadyExists, names, existing_kb, existing_data_sources,
                   data_dir, kb_id, query, response, shown>>
    /\ UNCHANGED <<nread, lib_fn, lib_in, ret>>

DataDirs ==
    {Missing} \cup {DataDir(files, sep) : files \in SUBSET FilePaths, sep \in Seps}

\* Lines 197-202 with a missing directory raised as an error.
UploadDataStrict ==
    /\ pc = "upload"
    /\ \E d \in DataDirs :
          /\ data_dir' = d
          /\ IF d = Missing
             THEN /\ Caught("FileNotFoundError")
                  /\ UNCHANGED log
             ELSE \E order \in WalkOrders(d.files), fails \in SUBSET d.files :
                     LET r == upload_directory(order, fails, d.sep,
                                               names.data_bucket_name)
                     IN  /\ log' = log \o r.calls
                         /\ logged' = logged \cup r.logs
                         /\ pc' = "ingest"
                         /\ UNCHANGED error
    /\ UNCHANGED <<kbAlreadyExists, names, existing_kb, existing_data_sources,
                   knowledge_base, kb_id, query, response, shown>>
    /\ UNCHANGED <<nread, lib_fn, lib_in, ret>>

\* Lines 197-202: the upload of synthetic_dataset, or the warning.
UploadData ==
    /\ pc = "upload"
    /\ \E d \in DataDirs :
          /\ data_dir' = d
          /\ IF d = Missing
             THEN /\ logged' = logged \cup {"skip_upload"}
                  /\ UNCHANGED log
             ELSE \E order \in WalkOrders(d.files), fails \in SUBSET d.files :
                     LET r == upload_directory(order, fails, d.sep,
                                               names.data_bucket_name)
                     IN  /\ log' = log \o r.calls
                         /\ logged' = logged \cup r.logs
    /\ pc' = "ingest"
    /\ UNCHANGED <<kbAlreadyExists, names, existing_kb, existing_data_sources,
                   knowledge_base, kb_id, query, response, shown, error>>
    /\ UNCHANGED <<nread, lib_fn, lib_in, ret>>

\* The create branch without the call of line 206.
StartIngestionSkipped ==
    /\ pc = "ingest"
    /\ pc' = "get_id"
    /\ UNCHANGED <<kbAlreadyExists, names, existing_kb, existing_data_sources,
                   knowledge_base, data_dir, kb_id, query, response, shown,
                   logged, error, log>>
    /\ UNCHANGED <<nread, lib_fn, lib_in, ret>>

\* Lines 204-206: the ingestion job.
StartIngestion ==
    /\ pc = "ingest"
    /\ \E ok \in BOOLEAN :
          LET r == AdapterStartIngestion(knowledge_base, ok)
          IN  /\ log' = log \o r.calls
              /\ IF r.raised
                 THEN Caught("IngestionError")
                 ELSE /\ pc' = "get_id"
                      /\ logged' = logged \cup {"starting_ingestion"}
                      /\ UNCHANGED error
    /\ UNCHANGED <<kbAlreadyExists, names, existing_kb, existing_data_sources,
                   knowledge_base, data_dir, kb_id, query, response, shown>>
    /\ UNCHANGED <<nread, lib_fn, lib_in, ret>>

\* Lines 208-217: the id out of the handle; subscripting None raises TypeError.
GetKbId ==
    /\ pc = "get_id"
    /\ IF knowledge_base.knowledge_base.tag = "None"
       THEN /\ Caught("TypeError")
            /\ UNCHANGED kb_id
       ELSE /\ kb_id' = knowledge_base.knowledge_base.knowledgeBaseId
            /\ pc' = "await"
            /\ logged' = logged \cup {"kb_id"}
            /\ UNCHANGED error
    /\ UNCHANGED <<kbAlreadyExists, names, existing_kb, existing_data_sources,
                   knowledge_base, data_dir, query, response, shown, log>>
    /\ UNCHANGED <<nread, lib_fn, lib_in, ret>>

\* Lines 219-222 with a return in place of the break: the sentinel ends the
\* run without the retrieve-only call.
ReadInputReturn ==
    /\ pc = "await"
    /\ \/ /\ Caught("EOFError")
          /\ UNCHANGED <<query, nread>>
       \/ \E line \in Lines :
             /\ query' = line
             /\ IF lower(line) = Sentinel
                THEN /\ pc' = "done"
                     /\ UNCHANGED nread
                ELSE /\ Count(log, "retrieve_and_generate") < MaxQueries
                     /\ pc' = "dispatch"
                     /\ nread' = nread + 1
             /\ UNCHANGED <<error, logged>>
    /\ UNCHANGED <<kbAlreadyExists, names, existing_kb, existing_data_sources,
                   knowledge_base, data_dir, kb_id, response, shown, log>>
    /\ UNCHANGED libVars

\* Lines 219-222: one line is read; end of input raises EOFError.
ReadInput ==
    /\ pc = "await"
    /\ \/ /\ Caught("EOFError")
          /\ UNCHANGED <<query, nread>>
       \/ \E line \in Lines :
             /\ query' = line
             /\ IF lower(line) = Sentinel
                THEN /\ pc' = "retrieve"
                     /\ UNCHANGED nread
                ELSE /\ Count(log, "retrieve_and_generate") < MaxQueries
                     /\ pc' = "dispatch"
                     /\ nread' = nread + 1
             /\ UNCHANGED <<error, logged>>
    /\ UNCHANGED <<kbAlreadyExists, names, existing_kb, existing_data_sources,
                   knowledge_base, data_dir, kb_id, response, shown, log>>
    /\ UNCHANGED libVars

\* Lines 225-247 without the try: a failed query reaches the handler of main().
DispatchUnguarded ==
    /\ pc = "dispatch"
    /\ \E o \in {"ok", "provider_error", "malformed"} :
          /\ log' = Append(log, Call("retrieve_and_generate",
                                     <<kb_id, ResultLimit>>, o # "provider_error"))
          /\ response' = CASE o = "ok" -> Answer
                           [] o = "malformed" -> NoText
                           [] OTHER -> response
          /\ IF o = "ok"
             THEN /\ shown' = [kind |-> "answer", items |-> 1]
                  /\ pc' = "await"
                  /\ UNCHANGED <<logged, error>>
             ELSE /\ Caught(IF o = "malformed" THEN "KeyError" ELSE "ClientError")
                  /\ UNCHANGED shown
    /\ UNCHANGED <<kbAlreadyExists, names, existing_kb, existing_data_sources,
                   knowledge_base, data_dir, kb_id, query>>
    /\ UNCHANGED <<nread, lib_fn, lib_in, ret>>

\* Lines 225-247 with a retry: a failed provider call is issued a second time.
DispatchRetry ==
    /\ pc = "dispatch"
    /\ \E o \in {"ok", "provider_error", "malformed"} :
          /\ log' = IF o = "provider_error"
                    THEN log \o <<Call("retrieve_and_generate", <<kb_id, ResultLimit>>, FALSE),
                                  Call("retrieve_and_generate", <<kb_id, ResultLimit>>, FALSE)>>
                    ELSE Append(log, Call("retrieve_and_generate",
                                          <<kb_id, ResultLimit>>, TRUE))
          /\ response' = CASE o = "ok" -> Answer
                           [] o = "malformed" -> NoText
                           [] OTHER -> response
          /\ shown' = IF o = "ok" THEN [kind |-> "answer", items |-> 1]
                      ELSE [kind |-> "error", items |-> 1]
    /\ pc' = "await"
    /\ UNCHANGED <<kbAlreadyExists, names, existing_kb, existing_data_sources,
                   knowledge_base, data_dir, kb_id, query, logged, error>>
    /\ UNCHANGED <<nread, lib_fn, lib_in, ret>>

\* Lines 225-247: one retrieve_and_generate call inside its try.
Dispatch ==
    /\ pc = "dispatch"
    /\ \E o \in {"ok", "provider_error", "malformed"} :
          /\ log' = Append(log, Call("retrieve_and_generate",
                                     <<kb_id, ResultLimit>>, o # "provider_error"))
          /\ response' = CASE o = "ok" -> Answer
                           [] o = "malformed" -> NoText
                           [] OTHER -> response
          /\ shown' = IF o = "ok" THEN [kind |-> "answer", items |-> 1]
                      ELSE [kind |-> "error", items |-> 1]
    /\ pc' = "await"
    /\ UNCHANGED <<kbAlreadyExists, names, existing_kb, existing_data_sources,
                   knowledge_base, data_dir, kb_id, query, logged, error>>
    /\ UNCHANGED <<nread, lib_fn, lib_in, ret>>

\* bad: the position of the first chunk that lacks a field (0: none).
RetrieveWorlds ==
    {w \in [ok : BOOLEAN, n : 0..MaxChunks, bad : 0..MaxChunks] :
        /\ w.bad <= w.n
        /\ ~w.ok => w.n = 0}

\* Lines 250-271: the retrieve-only call and the display of its chunks.
RetrieveOnly ==
    /\ pc = "retrieve"
    /\ \E w \in RetrieveWorlds :
          /\ log' = Append(log, Call("retrieve", <<kb_id, ResultLimit>>, w.ok))
          /\ IF ~w.ok
             THEN /\ Caught("ClientError")
                  /\ UNCHANGED shown
             ELSE IF w.bad # 0
             THEN /\ Caught("KeyError")
                  /\ shown' = [kind |-> "chunks", items |-> w.bad - 1]
             ELSE /\ pc' = "done"
                  /\ shown' = [kind |-> "chunks", items |-> w.n]
                  /\ logged' = logged \cup {"testing_retrieval"}
                  /\ UNCHANGED error
    /\ UNCHANGED <<kbAlreadyExists, names, existing_kb, existing_data_sources,
                   knowledge_base, data_dir, kb_id, query, response>>
    /\ UNCHANGED <<nread, lib_fn, lib_in, ret>>

Init == MainInit /\ LibIdle

Next ==
    \/ Setup
    \/ AdoptProbe
    \/ AdoptWrap
    \/ CreateProbe
    \/ CreateKB
    \/ UploadData
    \/ StartIngestion
    \/ GetKbId
    \/ ReadInput
    \/ Dispatch
    \/ RetrieveOnly

Spec == Init /\ [][Next]_vars

(***************************************************************************)
(* The script as line 150 has it (kbAlreadyExists = True), as a running    *)
(* process: main() is one sequential thread, and whenever it has a step of *)
(* its own to take it takes it.  The wait for a line at the prompt lasts   *)
(* as long as the user pleases, and no fairness is put on it.              *)
(***************************************************************************)
InitAsWritten == Init /\ kbAlreadyExists

NextAsWritten ==
    \/ Setup
    \/ AdoptProbe
    \/ AdoptWrap
    \/ GetKbId
    \/ ReadInput
    \/ Dispatch
    \/ RetrieveOnly

OwnStep == NextAsWritten /\ pc # "await"

SpecFair == InitAsWritten /\ [][NextAsWritten]_vars /\ WF_vars(OwnStep)

(***************************************************************************)
(* The retrieve-only call and its display, lines 250-271, on their own.    *)
(* The provider holds a ranking of chunks and answers a request with the   *)
(* first numberOfResults of them.                                          *)
(***************************************************************************)
MaxAvail == 6      \* chunks the provider holds for one query

\* The fields of a chunk in the order lines 267-270 read them.
ChunkFields == <<"content", "location", "score", "metadata">>

\* lacks: the field the provider left out of the chunk, or "none".
Chunk(id, score, lacks) == [id |-> id, score |-> score, lacks |-> lacks]

\* The rankings a provider may hold: n chunks whose scores fall or rise with
\* their rank, at most one of which lacks a field.
Rankings ==
    {[i \in 1..n |-> Chunk(i, IF falling THEN MaxAvail + 1 - i ELSE i,
                           IF i = bad THEN ChunkFields[f] ELSE "none")] :
        n \in 0..MaxAvail, falling \in BOOLEAN, bad \in 0..MaxAvail,
        f \in DOMAIN ChunkFields}

\* Lines 253-262: the arguments of the retrieve call.
RetrieveRequest(id) ==
    [knowledgeBaseId |-> id, numberOfResults |-> ResultLimit]

\* The answer of the provider to a request: the head of its ranking.
RetrievalResults(request, ranking) ==
    IF Len(ranking) <= request.numberOfResults THEN ranking
    ELSE SubSeq(ranking, 1, request.numberOfResults)

\* Lines 267-270 for one chunk, from its k-th field on: a line is printed for
\* each field up to the first one the chunk lacks, whose read raises KeyError.
RECURSIVE PrintChunk(_, _, _, _)
PrintChunk(chunk, num, k, printed) ==
    IF k > Len(ChunkFields)
    THEN [raised |-> FALSE, printed |-> printed]
    ELSE IF chunk.lacks = ChunkFields[k]
    THEN [raised |-> TRUE, printed |-> printed]
    ELSE PrintChunk(chunk, num, k + 1,
                    Append(printed, [num |-> num, field |-> ChunkFields[k],
                                     id |-> chunk.id]))

\* Lines 266-271: the chunks of the answer are displayed in its order.
RECURSIVE DisplayChunks(_, _, _)
DisplayChunks(results, num, printed) ==
    IF num > Len(results)
    THEN [raised |-> FALSE, printed |-> printed]
    ELSE LET one == PrintChunk(results[num], num, 1, printed)
         IN  IF one.raised THEN one
             ELSE DisplayChunks(results, num + 1, one.printed)

retrieve_only(ok, ranking, id) ==
    LET request == RetrieveRequest(id)
        calls   == <<Call("retrieve", <<request.knowledgeBaseId,
                                        request.numberOfResults>>, ok)>>
        results == RetrievalResults(request, ranking)
        display == DisplayChunks(results, 1, <<>>)
    IN  IF ~ok
        THEN [raised |-> TRUE, value |-> <<>>, printed |-> <<>>, calls |-> calls]
        ELSE [raised |-> display.raised, value |-> results,
              printed |-> display.printed, calls |-> calls]

(***************************************************************************)
(* The helpers on their own: the initial state draws one helper with its   *)
(* arguments and the provider's answers, and the helper is applied to      *)
(* them.  main() does not run.                                             *)
(***************************************************************************)
MainIdle ==
    /\ pc = "idle"
    /\ kbAlreadyExists = TRUE
    /\ names = NoNames
    /\ existing_kb = None
    /\ existing_data_sources = None
    /\ knowledge_base = None
    /\ data_dir = Unread
    /\ kb_id = NoKbId
    /\ query = InitialQuery
    /\ response = None
    /\ shown = Nothing
    /\ logged = {}
    /\ error = "none"
    /\ log = <<>>
    /\ nread = 0

UploadInputs ==
    UNION {[files : {files}, order : WalkOrders(files), fails : SUBSET files,
            sep : Seps, bucket_name : {AdoptNames.data_bucket_name}] :
              files \in SUBSET FilePaths}

LibInputs(fn) ==
    CASE fn = "check_s3_bucket_exists" ->
           [bucket_name : BucketNames, head : HeadOutcomes]
      [] fn = "create_s3_bucket_if_not_exists" ->
           [bucket_name : BucketNames, head : HeadOutcomes, create_ok : BOOLEAN,
            region : Regions]
      [] fn = "check_opensearch_collection_exists" ->
           [collection_name : {AdoptNames.vector_store_name}, w : CollectionWorlds]
      [] fn = "get_existing_knowledge_base" ->
           [kb_name : KbNames, w : KbWorlds]
      [] fn = "upload_directory" -> UploadInputs
      [] fn = "names" -> [t1 : Timestamps, t2 : Timestamps]
      [] fn = "bucket_scenario" ->
           [bucket_name : BucketNames, region : Regions, exists : BOOLEAN,
            head_faults : [1..3 -> HeadFaults], create_faults : [1..2 -> BOOLEAN]]
      [] fn = "retrieve_only" ->
           [kb_id : KbIds, ok : BOOLEAN, ranking : Rankings]

LibFns ==
    {"check_s3_bucket_exists", "create_s3_bucket_if_not_exists",
     "check_opensearch_collection_exists", "get_existing_knowledge_base",
     "upload_directory", "names", "retrieve_only", "bucket_scenario"}

LibInit ==
    /\ MainIdle
    /\ lib_fn \in LibFns
    /\ lib_in \in LibInputs(lib_fn)
    /\ ret = None

Returns(fn, r) ==
    /\ lib_fn = fn
    /\ ret = None
    /\ ret' = r
    /\ UNCHANGED <<lib_fn, lib_in>>
    /\ UNCHANGED mainVars

LibCheckBucket ==
    Returns("check_s3_bucket_exists",
            check_s3_bucket_exists(lib_in.head, lib_in.bucket_name))

LibCreateBucket ==
    Returns("create_s3_bucket_if_not_exists",
            create_s3_bucket_if_not_exists(lib_in.head, lib_in.create_ok,
                                           lib_in.region, lib_in.bucket_name))

LibCheckCollection ==
    Returns("check_opensearch_collection_exists",
            check_opensearch_collection_exists(lib_in.w, lib_in.collection_name))

LibGetExistingKb ==
    Returns("get_existing_knowledge_base",
            get_existing_knowledge_base(lib_in.w, lib_in.kb_name))

LibUploadDirectory ==
    Returns("upload_directory",
            upload_directory(lib_in.order, lib_in.fails, lib_in.sep,
                             lib_in.bucket_name))

\* Lines 134-142 as two runs started at t1 and at t2 execute them.
LibNames ==
    Returns("names",
            [raised |-> FALSE, value |-> <<NameSet(lib_in.t1), NameSet(lib_in.t2)>>])

\* Lines 250-271 applied to one answer of the provider.
LibRetrieveOnly ==
    Returns("retrieve_only",
            retrieve_only(lib_in.ok, lib_in.ranking, lib_in.kb_id))

\* Lines 33-50, 23-31 and 33-50 again, applied in turn to one bucket name.
LibBucketScenario ==
    Returns("bucket_scenario",
            BucketScenario(lib_in.exists, lib_in.head_faults, lib_in.create_faults,
                           lib_in.region, lib_in.bucket_name))

LibNext ==
    \/ LibCheckBucket
    \/ LibCreateBucket
    \/ LibCheckCollection
    \/ LibGetExistingKb
    \/ LibUploadDirectory
    \/ LibNames
    \/ LibRetrieveOnly
    \/ LibBucketScenario

SpecLib == LibInit /\ [][LibNext]_vars

Returned == ret # None

(***************************************************************************)
(* Properties.                                                             *)
(***************************************************************************)
Positions(api) == {i \in DOMAIN log : log[i].api = api}

InLoop == pc \in {"await", "dispatch"}

IsProbeApi(a) == a \in ProbeApis

HandleYielded == knowledge_base.tag = "handle"

\* C1: in adopt mode no provider call of the run is a mutating one (bucket,
\* collection, knowledge-base or data-source creation, upload, ingestion),
\* whatever the knowledge-base probe returned.
C1_AdoptNeverMutates ==
    kbAlreadyExists => \A i \in DOMAIN log : log[i].api \notin MutatingApis

\* C1 witness: an adopt run that found its knowledge base, fetched a data
\* source, answered a query and ended normally.
C1_Witness ==
    /\ kbAlreadyExists
    /\ pc = "done"
    /\ Positions("get_data_source") # {}
    /\ Positions("retrieve_and_generate") # {}

\* C2: the interactive loop is left only towards the retrieve-only call and
\* only by a step that read a line whose lower-cased form is "exit".
C2_OnlySentinelLeavesLoop ==
    [][(InLoop /\ ~InLoop') => (pc' = "retrieve" /\ lower(query') = Sentinel)]_vars

\* C3: a dispatch always returns to the prompt with nothing caught by the
\* handler of main(), and when the provider call failed or the response held
\* no answer text the error is what is displayed.
C3_DispatchFailureReprompts ==
    [][pc = "dispatch" =>
          /\ pc' = "await"
          /\ error' = "none"
          /\ (\/ ~log'[Len(log')].ok
              \/ (response'.tag = "response" /\ ~response'.has_text))
                 => shown'.kind = "error"]_vars

\* C3 witness: a further query is being dispatched after a failed one.
C3_Witness ==
    /\ pc = "dispatch"
    /\ shown.kind = "error"
    /\ \E i \in Positions("retrieve_and_generate") : ~log[i].ok

ProbeFns ==
    {"check_s3_bucket_exists", "check_opensearch_collection_exists",
     "get_existing_knowledge_base"}

\* The provider call of the probe failed for a reason other than absence.
ProviderFailed ==
    CASE lib_fn = "check_s3_bucket_exists" -> lib_in.head \in {"403", "transport"}
      [] lib_fn = "check_opensearch_collection_exists" -> ~lib_in.w.ok
      [] lib_fn = "get_existing_knowledge_base" ->
           \E i \in DOMAIN ret.calls : ~ret.calls[i].ok
      [] OTHER -> FALSE

\* The provider answered, and the resource is not there.
Absent ==
    CASE lib_fn = "check_s3_bucket_exists" -> lib_in.head = "404"
      [] lib_fn = "check_opensearch_collection_exists" ->
           lib_in.w.ok /\ lib_in.w.ids = <<>>
      [] lib_fn = "get_existing_knowledge_base" ->
           /\ lib_in.w.list_ok
           /\ \A i \in DOMAIN lib_in.w.summaries :
                 lib_in.w.summaries[i].name # lib_in.kb_name
      [] OTHER -> FALSE

\* C4: a probe returns not-found without raising when the resource is
\* absent, and raises when its provider call failed.
C4_ProbeFailurePropagates ==
    (Returned /\ lib_fn \in ProbeFns) =>
        /\ Absent => ~ret.raised
        /\ ProviderFailed => ret.raised

\* C5: when the adopt-mode lookup found no knowledge base of the name, nothing
\* is created and the run goes on with the null handle into the interactive
\* loop.
C5_NotFoundContinues ==
    [][(kbAlreadyExists /\ "kb_not_found" \in logged /\ pc = "get_id") =>
          /\ pc' = "await"
          /\ \A i \in DOMAIN log' : log'[i].api \notin MutatingApis]_vars

\* The upload attempts made for file f of the data directory.
UploadAttempts(f) ==
    {i \in Positions("upload_file") :
        log[i].arg = <<names.data_bucket_name, JoinPath(f, data_dir.sep)>>}

\* C6: in create mode every file of the data directory has exactly one upload
\* attempt, made after the knowledge base was provisioned; start_ingestion_job
\* is invoked exactly once, after all upload attempts and before any query.
C6_UploadsThenOneIngestion ==
    ~kbAlreadyExists =>
        /\ Cardinality(Positions("start_ingestion_job")) <= 1
        /\ (pc \in {"get_id", "await", "dispatch", "retrieve", "done"}
               => Cardinality(Positions("start_ingestion_job")) = 1)
        /\ data_dir.tag = "dir" =>
              /\ \A f \in data_dir.files : Cardinality(UploadAttempts(f)) = 1
              /\ Cardinality(Positions("upload_file")) = Cardinality(data_dir.files)
        /\ data_dir.tag # "dir" => Positions("upload_file") = {}
        /\ Positions("upload_file") # {} => HandleYielded
        /\ \A u \in Positions("upload_file"), p \in Positions("create_data_source") :
              p < u
        /\ \A u \in Positions("upload_file"), j \in Positions("start_ingestion_job") :
              u < j
        /\ Positions("start_ingestion_job") # {} => data_dir # Unread
        /\ \A q \in Positions("retrieve_and_generate") \cup Positions("retrieve") :
              \E j \in Positions("start_ingestion_job") : j < q

\* C6 witness: a create run with three files, one of them failed to upload,
\* whose first query is being dispatched.
C6_Witness ==
    /\ ~kbAlreadyExists
    /\ pc = "dispatch"
    /\ data_dir.tag = "dir"
    /\ Cardinality(data_dir.files) = 3
    /\ \E i \in Positions("upload_file") : ~log[i].ok

\* C7: upload_directory returns normally with exactly one upload attempt per
\* file, failed or not: a failure is logged and the walk goes on.
C7_OneAttemptPerFile ==
    (Returned /\ lib_fn = "upload_directory") =>
        /\ ~ret.raised
        /\ Len(ret.calls) = Cardinality(lib_in.files)
        /\ \A i \in DOMAIN ret.calls : ret.calls[i].api = "upload_file"
        /\ \A f \in lib_in.files :
              /\ Cardinality({i \in DOMAIN ret.calls :
                                 ret.calls[i].arg[2] = JoinPath(f, lib_in.sep)}) = 1
              /\ \A i \in DOMAIN ret.calls :
                    ret.calls[i].arg[2] = JoinPath(f, lib_in.sep)
                        => (ret.calls[i].ok <=> f \notin lib_in.fails)
        /\ ("upload_error" \in ret.logs) <=> (lib_in.fails # {})

\* C7 witness: three files, the first of the walk fails, a later one succeeds.
C7_Witness ==
    /\ Returned
    /\ lib_fn = "upload_directory"
    /\ Cardinality(lib_in.files) = 3
    /\ lib_in.order[1] \in lib_in.fails
    /\ lib_in.order[3] \notin lib_in.fails

\* C8: two runs started at different timestamps generate different name sets.
C8_DistinctTimestampsDistinctNames ==
    (Returned /\ lib_fn = "names" /\ lib_in.t1 # lib_in.t2)
        => ret.value[1] # ret.value[2]

\* C9 as the claim has it: on the create path a missing data directory aborts
\* the run, so no ingestion job is started and the loop is not entered.
C9_MissingDirAborts ==
    (~kbAlreadyExists /\ data_dir = Missing) =>
        /\ Positions("start_ingestion_job") = {}
        /\ ~InLoop

\* C9 amended: on the create path a missing data directory is not fatal: the
\* warning is logged, no upload is attempted, and start_ingestion_job is still
\* invoked exactly once before anything else happens to the run.
C9_MissingDirSkipsUpload ==
    (~kbAlreadyExists /\ data_dir = Missing) =>
        /\ "skip_upload" \in logged
        /\ Positions("upload_file") = {}
        /\ pc # "ingest" => Cardinality(Positions("start_ingestion_job")) = 1

\* C9 witness: a create run without data directory dispatching a query.
C9_Witness ==
    /\ ~kbAlreadyExists
    /\ data_dir = Missing
    /\ pc = "dispatch"

\* C10 as the claim has it: when the adapter has yielded the handle, the
\* bucket, the collection and the knowledge base were probed, in that order.
C10_AllThreeProbedInOrder ==
    HandleYielded =>
        \E i, j, k \in DOMAIN log :
            /\ i < j /\ j < k
            /\ log[i].api = "head_bucket"
            /\ log[j].api = "batch_get_collection"
            /\ log[k].api = "list_knowledge_bases"

\* C10 amended: when the adapter has yielded the handle, main() has made
\* exactly one probe, the knowledge-base probe in adopt mode and the
\* collection probe in create mode; the bucket is never probed, and the probe
\* precedes every provisioning call.
C10_OneProbeBeforeAdapter ==
    /\ Positions("head_bucket") = {}
    /\ HandleYielded =>
          /\ SelectSeq(Apis(log), IsProbeApi) =
                IF kbAlreadyExists THEN <<"list_knowledge_bases">>
                ELSE <<"batch_get_collection">>
          /\ \A i, j \in DOMAIN log :
                (log[i].api \in ProbeApis /\ log[j].api \in MutatingApis) => i < j

\* C10 witness: an adopt run whose handle is in use at the prompt.
C10_Witness ==
    /\ kbAlreadyExists
    /\ HandleYielded
    /\ pc = "await"

(***************************************************************************)
(* The interactive loop and what follows it.                               *)
(***************************************************************************)
\* C11: the retrieve_and_generate calls made are as many as the lines other
\* than the sentinel that were read, less the one line read and not yet
\* dispatched: each such line is dispatched once, a failed dispatch is not
\* repeated, and a loop left on its first line has dispatched nothing.
C11_OneDispatchPerLine ==
    /\ Count(log, "retrieve_and_generate")
          = nread - (IF pc = "dispatch" THEN 1 ELSE 0)
    /\ pc = "dispatch" => lower(query) # Sentinel
    /\ (pc = "retrieve" /\ nread = 0) => Positions("retrieve_and_generate") = {}

\* C11 witness: the loop was left on the sentinel after two lines, the first
\* of which met a provider failure.
C11_Witness ==
    /\ pc = "retrieve"
    /\ nread = 2
    /\ \E i \in Positions("retrieve_and_generate") :
          /\ ~log[i].ok
          /\ \E j \in Positions("retrieve_and_generate") : j > i

\* C12: whatever the separator of the host, the key of every upload is the
\* path of the file relative to the local root with its components joined by
\* forward slashes.
C12_KeysUseForwardSlashes ==
    (Returned /\ lib_fn = "upload_directory") =>
        \A i \in DOMAIN ret.calls :
            \E f \in lib_in.files : ret.calls[i].arg[2] = JoinPath(f, "/")

\* The chunks of which at least one line was printed, in the order printed.
Surfaced == {ret.printed[i].id : i \in DOMAIN ret.printed}

\* C13: the retrieve-only call asks for ResultLimit chunks, at most that many
\* are surfaced, in the order of the provider's ranking whatever their
\* scores, and all four fields of every surfaced chunk are displayed.
C13_SurfacedChunksComplete ==
    (Returned /\ lib_fn = "retrieve_only") =>
        /\ ret.calls[1].arg[2] = ResultLimit
        /\ Cardinality(Surfaced) <= ResultLimit
        /\ \A i, j \in DOMAIN ret.printed :
              i <= j => /\ ret.printed[i].id <= ret.printed[j].id
                        /\ ret.printed[i].num = ret.printed[i].id
        /\ \A id \in Surfaced :
              \A k \in DOMAIN ChunkFields :
                 \E i \in DOMAIN ret.printed :
                    /\ ret.printed[i].id = id
                    /\ ret.printed[i].field = ChunkFields[k]

\* C14: once create_s3_bucket_if_not_exists has returned True for a name, a
\* probe of the name reports the bucket found, and a second
\* create_s3_bucket_if_not_exists for the name returns True without calling
\* create_bucket.
C14_CreateThenFoundThenReused ==
    (Returned /\ lib_fn = "bucket_scenario" /\ ret.first.value) =>
        /\ ret.probe.value
        /\ ret.second.value
        /\ Count(ret.second.calls, "create_bucket") = 0

(***************************************************************************)
(* get_existing_knowledge_base and the payload of the probes.              *)
(***************************************************************************)
\* The least position of a summary of that name, 0 when there is none.
FirstMatch(summaries, kb_name) ==
    LET M == {i \in DOMAIN summaries : summaries[i].name = kb_name}
    IN  IF M = {} THEN 0 ELSE CHOOSE i \in M : \A j \in M : i <= j

\* The requests the claim has follow the listing of the knowledge bases.
RequestsFor(id, ds_list) ==
    <<[api |-> "get_knowledge_base", arg |-> <<id>>],
      [api |-> "list_data_sources", arg |-> <<id>>]>>
        \o [i \in DOMAIN ds_list |->
               [api |-> "get_data_source", arg |-> <<ds_list[i], id>>]]

\* C15: whatever the listing, duplicates of the name included, the id taken
\* is that of the first summary of the target name; the requests that follow
\* are one get_knowledge_base for that id, the listing of its data sources
\* and one get_data_source per listed data source in listing order, cut short
\* only by a request that raises; when none raises the descriptors returned
\* are those fetched, in listing order and as many as were listed.
C15_FirstMatchFetchedOnce ==
    (Returned /\ lib_fn = "get_existing_knowledge_base") =>
        LET m == FirstMatch(lib_in.w.summaries, lib_in.kb_name)
            id == lib_in.w.summaries[m].knowledgeBaseId
            expected == RequestsFor(id, lib_in.w.ds_list)
            after == Tail(ret.calls)
        IN  /\ ret.calls[1].api = "list_knowledge_bases"
            /\ m = 0 => (after = <<>> /\ ret.kb = None)
            /\ m # 0 =>
                 /\ Len(after) <= Len(expected)
                 /\ \A i \in DOMAIN after :
                       /\ after[i].api = expected[i].api
                       /\ after[i].arg = expected[i].arg
                       /\ ~after[i].ok => i = Len(after)
                 /\ (\A i \in DOMAIN after : after[i].ok) =>
                       /\ Len(after) = Len(expected)
                       /\ ret.kb = KbDescriptor(id)
                       /\ ret.data_sources.tag = "list"
                       /\ Len(ret.data_sources.items) = Len(lib_in.w.ds_list)
                       /\ \A i \in DOMAIN lib_in.w.ds_list :
                             ret.data_sources.items[i]
                                 = DsDescriptor(lib_in.w.ds_list[i], id)

\* C15 witness: two summaries carry the target name under different ids, two
\* data sources are listed, and the knowledge base was returned.
C15_Witness ==
    /\ Returned
    /\ lib_fn = "get_existing_knowledge_base"
    /\ Len(lib_in.w.summaries) = 2
    /\ lib_in.w.summaries[1].name = lib_in.kb_name
    /\ lib_in.w.summaries[2].name = lib_in.kb_name
    /\ lib_in.w.summaries[1].knowledgeBaseId # lib_in.w.summaries[2].knowledgeBaseId
    /\ lib_in.w.ds_list = <<"DS2", "DS1">>
    /\ ret.kb # None

\* C16: the retrieve-only call is made at most once and never before or
\* during the loop: once it is in the call log it is the last call, the loop
\* has been left on the sentinel, and the run is over; a run that ends
\* normally has made it exactly once; and every run that leaves the loop on
\* the sentinel comes to make it.
C16_OneRetrievalAfterLoop ==
    /\ [](/\ Count(log, "retrieve") <= 1
          /\ pc \notin {"done", "caught"} => Positions("retrieve") = {}
          /\ Positions("retrieve") # {} =>
                /\ log[Len(log)].api = "retrieve"
                /\ lower(query) = Sentinel
          /\ pc = "done" => Count(log, "retrieve") = 1)
    /\ (pc = "retrieve") ~> (Count(log, "retrieve") = 1)

\* C16 witness: a run that dispatched a query, left the loop on the sentinel
\* and ended normally after the retrieve-only call.
C16_Witness ==
    /\ pc = "done"
    /\ Positions("retrieve_and_generate") # {}
    /\ Positions("retrieve") # {}

\* The requests of that api that were answered.
Answered(calls, api) == {i \in DOMAIN calls : calls[i].api = api /\ calls[i].ok}

\* C17: a probe that reports found returns what the provider sent.
\* check_opensearch_collection_exists returns a descriptor only when
\* batch_get_collection answered with at least one detail, and then the first
\* of them, and None when it answered with none.
\* get_existing_knowledge_base returns (None, None), or else the descriptor a
\* get_knowledge_base request was answered with together with a list holding
\* one descriptor per answered get_data_source request, in their order.
C17_FoundCarriesFetchedPayload ==
    /\ (Returned /\ lib_fn = "check_opensearch_collection_exists") =>
          /\ ret.value # None =>
                /\ Answered(ret.calls, "batch_get_collection") # {}
                /\ Len(lib_in.w.ids) >= 1
                /\ ret.value = CollectionDetail(lib_in.w.ids[1], lib_in.collection_name)
          /\ (lib_in.w.ok /\ lib_in.w.ids = <<>>) => ret.value = None
    /\ (Returned /\ lib_fn = "get_existing_knowledge_base") =>
          \/ ret.kb = None /\ ret.data_sources = None
          \/ /\ ret.kb # None
             /\ ret.data_sources # None
             /\ \E i \in Answered(ret.calls, "get_knowledge_base") :
                   ret.kb = KbDescriptor(ret.calls[i].arg[1])
             /\ ret.data_sources.tag = "list"
             /\ Len(ret.data_sources.items)
                   = Cardinality(Answered(ret.calls, "get_data_source"))
             /\ \A n \in DOMAIN ret.data_sources.items :
                   \E i \in Answered(ret.calls, "get_data_source") :
                      /\ Cardinality({j \in Answered(ret.calls, "get_data_source") :
                                         j <= i}) = n
                      /\ ret.data_sources.items[n]
                            = DsDescriptor(ret.calls[i].arg[1], ret.calls[i].arg[2])

\* C17 witness: a knowledge base was returned with two different data sources.
C17_Witness ==
    /\ Returned
    /\ lib_fn = "get_existing_knowledge_base"
    /\ ret.kb # None
    /\ Len(ret.data_sources.items) = 2
    /\ ret.data_sources.items[1] # ret.data_sources.items[2]

(***************************************************************************)
(* The handler of main().                                                  *)
(***************************************************************************)
\* The requests whose failure is handled where it occurs: those of the
\* probes, of the per-file upload and of the per-query dispatch.
HandledApis ==
    {"head_bucket", "batch_get_collection", "list_knowledge_bases",
     "get_knowledge_base", "list_data_sources", "get_data_source",
     "upload_file", "retrieve_and_generate"}

MainPositions ==
    {"setup", "mode", "adopt_wrap", "create_kb", "upload", "ingest", "get_id",
     "await", "dispatch", "retrieve", "done", "caught"}

\* C18: no error leaves main().  The run is always at a position of main()
\* or over; an error is recorded exactly when the handler of line 273 has
\* run, and it has then logged it; a failed request other than the locally
\* handled ones is the last request of the run and has the run in the
\* handler; a handle without knowledge base never gets past line 209; and
\* once the handler has run (or main() has ended normally) nothing more
\* happens, no provider request in particular.
C18_MainCatchesEveryFailure ==
    /\ [](/\ pc \in MainPositions
          /\ pc = "caught" <=> error # "none"
          /\ pc = "caught" => "main_error" \in logged
          /\ \A i \in DOMAIN log :
                (~log[i].ok /\ log[i].api \notin HandledApis)
                    => (pc = "caught" /\ i = Len(log))
          /\ pc \in {"await", "dispatch", "retrieve", "done"}
                => (HandleYielded /\ knowledge_base.knowledge_base # None))
    /\ [][pc \notin {"caught", "done"}]_vars

\* C18 witness: an adopt run whose probe found nothing ended in the handler
\* on the TypeError of line 209, after the wrapper was built.
C18_Witness ==
    /\ pc = "caught"
    /\ error = "TypeError"
    /\ kbAlreadyExists
    /\ HandleYielded

====
